---- MODULE Spec2Model ----
(***************************************************************************)
(* Model of version_exporter (src/main.go): the /probe handler, the scan   *)
(* for the latest stable release, and the three process-wide gauges.       *)
(* Strings that the program inspects character by character (tags) are     *)
(* sequences of one-character strings; error values are sequences of       *)
(* messages (outermost first), the nil error being the empty sequence.     *)
(***************************************************************************)
EXTENDS Integers, Sequences, FiniteSets, TLC

\* ------------------------------------------------------------------ bounds
NumProbes == 2          \* probe requests served in one behaviour
MaxReleases == 2        \* longest release list the upstream returns
MaxDuration == 1        \* largest elapsed time a probe measures

\* ------------------------------------------------- semantic versions (semver)
Digits == <<"0", "1", "2", "3", "4", "5", "6", "7", "8", "9">>
Letters == {"a", "b", "c", "r", "v", "x"}

IsDigit(c) == \E i \in 1..10 : Digits[i] = c
DigitVal(c) == (CHOOSE i \in 1..10 : Digits[i] = c) - 1
\* the character class [0-9A-Za-z\-] of the version regular expression
IsIdentChar(c) == IsDigit(c) \/ c \in Letters \/ c = "-"

Drop(s, n) == SubSeq(s, n + 1, Len(s))
Take(s, n) == SubSeq(s, 1, n)

\* length of the longest prefix of s made of digits
RECURSIVE DigitRun(_)
DigitRun(s) ==
    IF s # <<>> /\ IsDigit(s[1]) THEN 1 + DigitRun(Tail(s)) ELSE 0

\* strconv.ParseInt on a run of digits
RECURSIVE ParseInt(_)
ParseInt(s) ==
    IF s = <<>> THEN 0 ELSE 10 * ParseInt(Take(s, Len(s) - 1)) + DigitVal(s[Len(s)])

\* position of the first occurrence of c in s, Len(s)+1 when absent
RECURSIVE IndexOf(_, _)
IndexOf(s, c) ==
    IF s = <<>> \/ s[1] = c THEN 1 ELSE 1 + IndexOf(Tail(s), c)

\* [0-9A-Za-z\-]+(\.[0-9A-Za-z\-]+)* : non-empty identifiers separated by dots
RECURSIVE IsDotted(_)
IsDotted(s) ==
    LET k == IndexOf(s, ".")
    IN  /\ k > 1
        /\ \A i \in 1..(k - 1) : IsIdentChar(s[i])
        /\ (k <= Len(s) => IsDotted(Drop(s, k)))

NilVersion == [nil |-> TRUE]
Nil == <<>>
ErrInvalidSemVer == <<"Invalid Semantic Version">>

\* one optional group (\.[0-9]+)? : the digits consumed and the rest
OptNumber(s) ==
    IF s # <<>> /\ s[1] = "." /\ DigitRun(Tail(s)) > 0
    THEN [n |-> ParseInt(Take(Tail(s), DigitRun(Tail(s)))),
          rest |-> Drop(Tail(s), DigitRun(Tail(s)))]
    ELSE [n |-> 0, rest |-> s]

\* the suffix (-pre)?(+metadata)?$ : ok, pre, metadata
Suffix(s) ==
    LET hasPre == s # <<>> /\ s[1] = "-"
        afterDash == IF hasPre THEN Tail(s) ELSE s
        plus == IndexOf(afterDash, "+")
        pre == IF hasPre THEN Take(afterDash, plus - 1) ELSE <<>>
        rest == IF hasPre THEN Drop(afterDash, plus - 1) ELSE s
        hasMeta == rest # <<>> /\ rest[1] = "+"
        meta == IF hasMeta THEN Tail(rest) ELSE <<>>
    IN  [ok |-> /\ (hasPre => IsDotted(pre))
                /\ (hasMeta => IsDotted(meta))
                /\ (~hasMeta => rest = <<>>),
         pre |-> pre, metadata |-> meta]

\* semver.NewVersion: ^v?([0-9]+)(\.[0-9]+)?(\.[0-9]+)?(-pre)?(\+meta)?$
NewVersion(t) ==
    LET s0 == IF t # <<>> /\ t[1] = "v" THEN Tail(t) ELSE t
        n1 == DigitRun(s0)
        mi == OptNumber(Drop(s0, n1))
        pa == OptNumber(mi.rest)
        sf == Suffix(pa.rest)
    IN  IF n1 > 0 /\ sf.ok
        THEN [v |-> [major |-> ParseInt(Take(s0, n1)), minor |-> mi.n, patch |-> pa.n,
                     pre |-> sf.pre, metadata |-> sf.metadata],
              err |-> Nil]
        ELSE [v |-> NilVersion, err |-> ErrInvalidSemVer]

\* ASCII order of the characters an identifier is made of
Ascii == <<"-", "0", "1", "2", "3", "4", "5", "6", "7", "8", "9",
           "a", "b", "c", "r", "v", "x">>
Rank(c) == CHOOSE i \in 1..Len(Ascii) : Ascii[i] = c

compareSegment(a, b) == IF a < b THEN -1 ELSE IF a > b THEN 1 ELSE 0

\* Go's comparison of two strings, byte by byte
RECURSIVE StrCompare(_, _)
StrCompare(a, b) ==
    IF a = <<>> /\ b = <<>> THEN 0
    ELSE IF a = <<>> THEN -1
    ELSE IF b = <<>> THEN 1
    ELSE IF a[1] # b[1] THEN compareSegment(Rank(a[1]), Rank(b[1]))
    ELSE StrCompare(Tail(a), Tail(b))

IsNumeric(s) == s # <<>> /\ DigitRun(s) = Len(s)

\* comparePrePart: one identifier of a prerelease against another ("" = absent)
comparePrePart(s, o) ==
    IF s = o THEN 0
    ELSE IF s = <<>> THEN -1
    ELSE IF o = <<>> THEN 1
    ELSE IF IsNumeric(s) /\ IsNumeric(o) THEN compareSegment(ParseInt(s), ParseInt(o))
    ELSE IF IsNumeric(s) THEN -1
    ELSE IF IsNumeric(o) THEN 1
    ELSE StrCompare(s, o)

\* comparePrerelease: identifier by identifier, left to right
RECURSIVE comparePrerelease(_, _)
comparePrerelease(v, o) ==
    LET kv == IndexOf(v, ".")
        ko == IndexOf(o, ".")
        d == comparePrePart(Take(v, kv - 1), Take(o, ko - 1))
    IN  IF v = <<>> /\ o = <<>> THEN 0
        ELSE IF d # 0 THEN d
        ELSE comparePrerelease(Drop(v, kv), Drop(o, ko))

\* Version.Compare: -1, 0 or 1; build metadata is ignored
Compare(v, o) ==
    IF compareSegment(v.major, o.major) # 0 THEN compareSegment(v.major, o.major)
    ELSE IF compareSegment(v.minor, o.minor) # 0 THEN compareSegment(v.minor, o.minor)
    ELSE IF compareSegment(v.patch, o.patch) # 0 THEN compareSegment(v.patch, o.patch)
    ELSE IF v.pre = <<>> /\ o.pre = <<>> THEN 0
    ELSE IF v.pre = <<>> THEN 1
    ELSE IF o.pre = <<>> THEN -1
    ELSE comparePrerelease(v.pre, o.pre)

GreaterThan(v, o) == Compare(v, o) > 0

Prerelease(v) == v.pre

\* ------------------------------------------------------------------ inputs
Probes == 1..NumProbes

Repos == {<<>>, <<"acme/widget">>}

\* tag query parameters: missing, malformed, v1.0.0, 2.0.0-rc1, v3
QueryTags ==
    { <<>>,
      <<"x">>,
      <<"v", "1", ".", "0", ".", "0">>,
      <<"2", ".", "0", ".", "0", "-", "r", "c", "1">>,
      <<"v", "3">> }

\* tag_name values upstream: 1.0.0, v2.0.0, 2.0.0-rc1 and a free-form tag
ReleaseTags ==
    { <<"1", ".", "0", ".", "0">>,
      <<"v", "2", ".", "0", ".", "0">>,
      <<"2", ".", "0", ".", "0", "-", "r", "c", "1">>,
      <<"x">> }

\* type Release (PublishedAt is never read)
Releases == [TagName : ReleaseTags, Draft : BOOLEAN, Prerelease : BOOLEAN]

SeqsUpTo(S, n) == UNION {[1..k -> S] : k \in 0..n}

ReleaseLists == SeqsUpTo(Releases, MaxReleases)

\* what http.DefaultClient.Do hands back: a transport error, or a response
\* with a status code and a body that is or is not a JSON array of releases
TransportError == [err |-> <<"dial tcp: i/o timeout">>, StatusCode |-> 0,
                   Body |-> [json |-> FALSE, releases |-> <<>>]]
StatusResponse(code) == [err |-> Nil, StatusCode |-> code,
                         Body |-> [json |-> FALSE, releases |-> <<>>]]
MalformedResponse == [err |-> Nil, StatusCode |-> 200,
                      Body |-> [json |-> FALSE, releases |-> <<>>]]
OkResponse(l) == [err |-> Nil, StatusCode |-> 200,
                  Body |-> [json |-> TRUE, releases |-> l]]

StatusOK == 200
StatusBadRequest == 400

NotFound == StatusResponse(404)

Outcomes ==
    {TransportError, NotFound, MalformedResponse}
        \cup {OkResponse(l) : l \in ReleaseLists}

NoResponse == [err |-> Nil, StatusCode |-> 0, Body |-> [json |-> FALSE, releases |-> <<>>]]

\* the inputs of the interleaved specification: a few of the above kinds,
\* with short tags (v1 is 1.0.0, 2 is 2.0.0)
FewTags == {<<>>, <<"x">>, <<"v", "1">>}
FewReleaseTags == {<<"x">>, <<"1">>, <<"2">>}
Plain(t) == [TagName |-> t, Draft |-> FALSE, Prerelease |-> FALSE]
FewOutcomes ==
    { TransportError, NotFound, MalformedResponse,
      OkResponse(<<>>),
      OkResponse(<<Plain(<<"2">>)>>),
      OkResponse(<<Plain(<<"x">>), Plain(<<"1">>)>>) }

\* ------------------------------------------------------------ pure functions
\* semver.NewVersion on the tags that occur, parsed once each
Tags == QueryTags \cup ReleaseTags \cup FewTags \cup FewReleaseTags
parse == [t \in Tags |-> NewVersion(t)]

\* errors.Wrap: annotates err with a message; a nil err stays nil
Wrap(err, message) == IF err = Nil THEN Nil ELSE <<message>> \o err

\* json.NewDecoder(resp.Body).Decode(&releases)
Decode(body) ==
    IF body.json THEN [releases |-> body.releases, err |-> Nil]
    ELSE [releases |-> <<>>, err |-> <<"invalid character">>]

\* findReleases, from the return of http.DefaultClient.Do on
findReleases(o) ==
    IF o.err # Nil
    THEN [releases |-> <<>>, err |-> Wrap(o.err, "failed to get repository releases")]
    ELSE IF o.StatusCode # StatusOK
    THEN [releases |-> <<>>, err |-> Wrap(o.err, "github responded a non-200 status code")]
    ELSE IF Decode(o.Body).err # Nil
    THEN [releases |-> Decode(o.Body).releases,
          err |-> Wrap(Decode(o.Body).err, "failed to parse the response body")]
    ELSE [releases |-> Decode(o.Body).releases, err |-> Nil]

\* the loop with the draft flag forgotten in the first test
RECURSIVE scan_nodraft(_)
scan_nodraft(releases) ==
    IF releases = <<>> THEN [version |-> NilVersion, err |-> Nil]
    ELSE LET release == Head(releases)
             parsed == parse[release.TagName]
         IN  IF release.Prerelease THEN scan_nodraft(Tail(releases))
             ELSE IF parsed.err # Nil THEN scan_nodraft(Tail(releases))
             ELSE IF Prerelease(parsed.v) # <<>> THEN scan_nodraft(Tail(releases))
             ELSE [version |-> parsed.v, err |-> Nil]

\* the loop ending at the first tag that does not parse
RECURSIVE scan_abort(_)
scan_abort(releases) ==
    IF releases = <<>> THEN [version |-> NilVersion, err |-> Nil]
    ELSE LET release == Head(releases)
             parsed == parse[release.TagName]
         IN  IF release.Draft \/ release.Prerelease THEN scan_abort(Tail(releases))
             ELSE IF parsed.err # Nil THEN [version |-> NilVersion, err |-> Nil]
             ELSE IF Prerelease(parsed.v) # <<>> THEN scan_abort(Tail(releases))
             ELSE [version |-> parsed.v, err |-> Nil]

\* the loop of findLatest over the releases
RECURSIVE scan(_)
scan(releases) ==
    IF releases = <<>> THEN [version |-> NilVersion, err |-> Nil]
    ELSE LET release == Head(releases)
             parsed == parse[release.TagName]
         IN  IF release.Draft \/ release.Prerelease THEN scan(Tail(releases))
             ELSE IF parsed.err # Nil THEN scan(Tail(releases))
             ELSE IF Prerelease(parsed.v) # <<>> THEN scan(Tail(releases))
             ELSE [version |-> parsed.v, err |-> Nil]

findLatest(o) ==
    IF findReleases(o).err # Nil
    THEN [version |-> NilVersion, err |-> findReleases(o).err]
    ELSE scan(findReleases(o).releases)

boolToFloat(b) == IF b THEN 1 ELSE 0

\* the comparison with "not lower" in the place of "greater"
upToDate_equal(version, current) ==
    IF version = NilVersion THEN 1
    ELSE boolToFloat(~(Compare(version, current) >= 0))

\* the value probeHandler passes to updateGauge.Set
upToDate(version, current) ==
    IF version = NilVersion THEN 1
    ELSE boolToFloat(~GreaterThan(version, current))

\* ------------------------------------------------------------------- state
VARIABLES
    updateGauge,          \* up_to_date
    probeDurationGauge,   \* probe_duration_seconds
    probeErrorsGauge,     \* probe_error_count
    pc,                   \* where each probe's handler stands
    repo, tag,            \* the query parameters of each probe
    currentVersion,       \* the parsed tag
    resp,                 \* what the outbound request returned
    latest,               \* what findLatest returned: a version and an error
    requests,             \* outbound requests each probe has issued
    w,                    \* what each probe wrote to its ResponseWriter
    updSets, durSets,     \* values each probe passed to the gauges' Set
    errIncs               \* calls each probe made to probeErrorsGauge.Inc

vars == <<updateGauge, probeDurationGauge, probeErrorsGauge, pc, repo, tag,
          currentVersion, resp, latest, requests, w, updSets, durSets, errIncs>>

gauges == <<updateGauge, probeDurationGauge, probeErrorsGauge>>
locals == <<repo, tag, currentVersion, resp, latest>>
calls == <<updSets, durSets, errIncs>>

Init ==
    /\ updateGauge = 0
    /\ probeDurationGauge = 0
    /\ probeErrorsGauge = 0
    /\ pc = [p \in Probes |-> "idle"]
    /\ repo = [p \in Probes |-> <<>>]
    /\ tag = [p \in Probes |-> <<>>]
    /\ currentVersion = [p \in Probes |-> NilVersion]
    /\ resp = [p \in Probes |-> NoResponse]
    /\ latest = [p \in Probes |-> [version |-> NilVersion, err |-> Nil]]
    /\ requests = [p \in Probes |-> 0]
    /\ w = [p \in Probes |-> <<>>]
    /\ updSets = [p \in Probes |-> <<>>]
    /\ durSets = [p \in Probes |-> <<>>]
    /\ errIncs = [p \in Probes |-> 0]

\* the handler returns: its locals are gone
Return(p) ==
    /\ pc' = [pc EXCEPT ![p] = "done"]
    /\ repo' = [repo EXCEPT ![p] = <<>>]
    /\ tag' = [tag EXCEPT ![p] = <<>>]
    /\ currentVersion' = [currentVersion EXCEPT ![p] = NilVersion]
    /\ resp' = [resp EXCEPT ![p] = NoResponse]
    /\ latest' = [latest EXCEPT ![p] = [version |-> NilVersion, err |-> Nil]]

\* the error path with the duration gauge set before the return
Fail_duration(p, message) ==
    /\ probeErrorsGauge' = probeErrorsGauge + 1
    /\ errIncs' = [errIncs EXCEPT ![p] = @ + 1]
    /\ w' = [w EXCEPT ![p] = Append(@, [code |-> StatusBadRequest, body |-> message])]
    /\ \E d \in 0..MaxDuration :
        /\ probeDurationGauge' = d
        /\ durSets' = [durSets EXCEPT ![p] = Append(@, d)]
    /\ Return(p)
    /\ UNCHANGED <<updateGauge, requests, updSets>>

\* probeErrorsGauge.Inc(); http.Error(w, message, 400); return
Fail(p, message) ==
    /\ probeErrorsGauge' = probeErrorsGauge + 1
    /\ errIncs' = [errIncs EXCEPT ![p] = @ + 1]
    /\ w' = [w EXCEPT ![p] = Append(@, [code |-> StatusBadRequest, body |-> message])]
    /\ Return(p)
    /\ UNCHANGED <<updateGauge, probeDurationGauge, requests, updSets, durSets>>

\* a GET /probe?repo=..&tag=.. arrives and its handler starts
Request(p, repos, tags) ==
    /\ pc[p] = "idle"
    /\ \E r \in repos, t \in tags :
        /\ repo' = [repo EXCEPT ![p] = r]
        /\ tag' = [tag EXCEPT ![p] = t]
    /\ pc' = [pc EXCEPT ![p] = "validate"]
    /\ UNCHANGED <<gauges, currentVersion, resp, latest, requests, w, calls>>

\* the checks with the Inc of the missing-tag branch forgotten
Validate_noinc(p) ==
    /\ pc[p] = "validate"
    /\ IF repo[p] = <<>> THEN Fail(p, <<"repo parameter is missing">>)
       ELSE IF tag[p] = <<>>
       THEN /\ w' = [w EXCEPT ![p] = Append(@, [code |-> StatusBadRequest,
                                               body |-> <<"tag parameter is missing">>])]
            /\ Return(p)
            /\ UNCHANGED <<gauges, requests, calls>>
       ELSE IF parse[tag[p]].err # Nil THEN Fail(p, parse[tag[p]].err)
       ELSE /\ currentVersion' = [currentVersion EXCEPT ![p] = parse[tag[p]].v]
            /\ pc' = [pc EXCEPT ![p] = "fetch"]
            /\ UNCHANGED <<gauges, repo, tag, resp, latest, requests, w, calls>>

\* the checks with the tag looked at before the repo
Validate_tagfirst(p) ==
    /\ pc[p] = "validate"
    /\ IF tag[p] = <<>> THEN Fail(p, <<"tag parameter is missing">>)
       ELSE IF repo[p] = <<>> THEN Fail(p, <<"repo parameter is missing">>)
       ELSE IF parse[tag[p]].err # Nil THEN Fail(p, parse[tag[p]].err)
       ELSE /\ currentVersion' = [currentVersion EXCEPT ![p] = parse[tag[p]].v]
            /\ pc' = [pc EXCEPT ![p] = "fetch"]
            /\ UNCHANGED <<gauges, repo, tag, resp, latest, requests, w, calls>>

\* the checks of the parameters
Validate(p) ==
    /\ pc[p] = "validate"
    /\ IF repo[p] = <<>> THEN Fail(p, <<"repo parameter is missing">>)
       ELSE IF tag[p] = <<>> THEN Fail(p, <<"tag parameter is missing">>)
       ELSE IF parse[tag[p]].err # Nil THEN Fail(p, parse[tag[p]].err)
       ELSE /\ currentVersion' = [currentVersion EXCEPT ![p] = parse[tag[p]].v]
            /\ pc' = [pc EXCEPT ![p] = "fetch"]
            /\ UNCHANGED <<gauges, repo, tag, resp, latest, requests, w, calls>>

\* findLatest -> findReleases: the request to the release listing goes out
Do(p) ==
    /\ pc[p] = "fetch"
    /\ requests' = [requests EXCEPT ![p] = @ + 1]
    /\ pc' = [pc EXCEPT ![p] = "await"]
    /\ UNCHANGED <<gauges, locals, w, calls>>

\* http.DefaultClient.Do returns
Response(p, outcomes) ==
    /\ pc[p] = "await"
    /\ \E o \in outcomes : resp' = [resp EXCEPT ![p] = o]
    /\ pc' = [pc EXCEPT ![p] = "evaluate"]
    /\ UNCHANGED <<gauges, repo, tag, currentVersion, latest, requests, w, calls>>

\* the rest of findReleases, and findLatest's scan of what it returned
FindLatest(p) ==
    /\ pc[p] = "evaluate"
    /\ latest' = [latest EXCEPT ![p] = findLatest(resp[p])]
    /\ pc' = [pc EXCEPT ![p] = "compare"]
    /\ UNCHANGED <<gauges, repo, tag, currentVersion, resp, requests, w, calls>>

\* the error branch without its return: the handler goes on to the comparison
Report_noreturn(p) ==
    /\ pc[p] = "compare"
    /\ updateGauge' = upToDate(latest[p].version, currentVersion[p])
    /\ updSets' = [updSets EXCEPT ![p] = Append(@, updateGauge')]
    /\ pc' = [pc EXCEPT ![p] = "duration"]
    /\ IF latest[p].err # Nil
       THEN /\ probeErrorsGauge' = probeErrorsGauge + 1
            /\ errIncs' = [errIncs EXCEPT ![p] = @ + 1]
            /\ w' = [w EXCEPT ![p] = Append(@, [code |-> StatusBadRequest,
                                               body |-> latest[p].err])]
       ELSE UNCHANGED <<probeErrorsGauge, errIncs, w>>
    /\ UNCHANGED <<probeDurationGauge, locals, requests, durSets>>

\* back in probeHandler: the error of findLatest, or the comparison
Report(p) ==
    /\ pc[p] = "compare"
    /\ IF latest[p].err # Nil THEN Fail(p, latest[p].err)
       ELSE /\ updateGauge' = upToDate(latest[p].version, currentVersion[p])
            /\ updSets' = [updSets EXCEPT ![p] = Append(@, updateGauge')]
            /\ pc' = [pc EXCEPT ![p] = "duration"]
            /\ UNCHANGED <<probeDurationGauge, probeErrorsGauge, locals,
                           requests, w, durSets, errIncs>>

\* the handler going on to the response with the duration never set
SetDuration_skip(p) ==
    /\ pc[p] = "duration"
    /\ pc' = [pc EXCEPT ![p] = "render"]
    /\ UNCHANGED <<gauges, locals, requests, w, calls>>

\* probeDurationGauge.Set(time.Since(start).Seconds())
SetDuration(p) ==
    /\ pc[p] = "duration"
    /\ \E d \in 0..MaxDuration :
        /\ probeDurationGauge' = d
        /\ durSets' = [durSets EXCEPT ![p] = Append(@, d)]
    /\ pc' = [pc EXCEPT ![p] = "render"]
    /\ UNCHANGED <<updateGauge, probeErrorsGauge, locals, requests, w, updSets, errIncs>>

\* promhttp.HandlerFor(registry, ..).ServeHTTP: the three gauges as they are now
Render(p) ==
    /\ pc[p] = "render"
    /\ w' = [w EXCEPT ![p] = Append(@, [code |-> StatusOK,
                body |-> [up_to_date |-> updateGauge,
                          probe_duration_seconds |-> probeDurationGauge,
                          probe_error_count |-> probeErrorsGauge]])]
    /\ Return(p)
    /\ UNCHANGED <<gauges, requests, calls>>

\* the steps of the handler itself
probeHandler(p) ==
    Validate(p) \/ Do(p) \/ FindLatest(p) \/ Report(p) \/ SetDuration(p) \/ Render(p)

\* probes in any interleaving
Next ==
    \E p \in Probes :
        \/ Request(p, Repos, FewTags)
        \/ Response(p, FewOutcomes)
        \/ probeHandler(p)

Spec == Init /\ [][Next]_vars

\* the server's goroutines keep running: every started handler is scheduled
FairSpec == Spec /\ \A p \in Probes : WF_vars(probeHandler(p))

\* one probe alone, over every tag and every release list
Solo == CHOOSE p \in Probes : \A q \in Probes : p <= q

NextSolo ==
    \/ Request(Solo, Repos, QueryTags)
    \/ Response(Solo, Outcomes)
    \/ probeHandler(Solo)

SoloSpec == Init /\ [][NextSolo]_vars

\* ------------------------------------------------------------------ claims
Past(p) == pc[p] \in {"duration", "render"}
Responded(p, code) == Len(w[p]) = 1 /\ w[p][1].code = code
Fetched(p) == resp[p].err = Nil /\ resp[p].StatusCode = StatusOK /\ resp[p].Body.json

\* a stable release: no draft, no prerelease, a tag that parses, no prerelease part
Stable(r) ==
    /\ ~r.Draft
    /\ ~r.Prerelease
    /\ NewVersion(r.TagName).err = Nil
    /\ NewVersion(r.TagName).v.pre = <<>>

StableAt(rs) == {i \in 1..Len(rs) : Stable(rs[i])}
FirstStable(rs) == CHOOSE i \in StableAt(rs) : \A j \in StableAt(rs) : i <= j
Newer(r, current) == Compare(NewVersion(r.TagName).v, current) = 1

\* C1 (as claimed): a probe whose upstream answers with a non-200 status gets
\* a non-nil error from findReleases, ends with 400, adds exactly 1 to
\* probe_error_count and never sets up_to_date.
C1_Non200Is400 ==
    [][\A p \in Probes :
        (/\ pc[p] = "compare" /\ pc'[p] # "compare"
         /\ resp[p].err = Nil /\ resp[p].StatusCode # StatusOK)
        => /\ findReleases(resp[p]).err # Nil
           /\ latest[p].err # Nil
           /\ Responded(p, StatusBadRequest)'
           /\ probeErrorsGauge' = probeErrorsGauge + 1
           /\ updSets'[p] = <<>>]_vars

\* C2 (as claimed): after a successful fetch up_to_date is set to 0 exactly
\* when SOME stable release of the list, wherever it stands, is strictly
\* greater than the current version, and to 1 otherwise.
C2_AnyOrder ==
    \A p \in Probes :
        (Past(p) /\ Fetched(p)) =>
            LET rs == resp[p].Body.releases
            IN  updSets[p] =
                    <<IF \E i \in StableAt(rs) : Newer(rs[i], currentVersion[p])
                      THEN 0 ELSE 1>>

\* C2 (amended): after a successful fetch up_to_date is set to 0 exactly when
\* the FIRST stable release in list order is strictly greater than the
\* current version, and to 1 otherwise (also when no release is stable).
C2_FirstStable ==
    \A p \in Probes :
        (Past(p) /\ Fetched(p)) =>
            LET rs == resp[p].Body.releases
            IN  updSets[p] =
                    <<IF /\ StableAt(rs) # {}
                         /\ Newer(rs[FirstStable(rs)], currentVersion[p])
                      THEN 0 ELSE 1>>

\* a later stable release is newer than the current version, the first is not
C2_Witness ==
    \E p \in Probes :
        /\ Past(p) /\ Fetched(p)
        /\ LET rs == resp[p].Body.releases
           IN  /\ StableAt(rs) # {}
               /\ ~Newer(rs[FirstStable(rs)], currentVersion[p])
               /\ \E i \in StableAt(rs) : Newer(rs[i], currentVersion[p])
        /\ updSets[p] = <<1>>

\* C3: a probe that reaches the comparison sets up_to_date to 0 iff findLatest
\* returned a version strictly greater than the current one; to 1 when that
\* version is equal or lower, and when findLatest returned no version.
C3_Comparison ==
    \A p \in Probes :
        Past(p) =>
            /\ Len(updSets[p]) = 1
            /\ (updSets[p][1] = 0) <=>
                    (/\ latest[p].version # NilVersion
                     /\ Compare(latest[p].version, currentVersion[p]) = 1)
            /\ (updSets[p][1] = 1) <=>
                    \/ latest[p].version = NilVersion
                    \/ Compare(latest[p].version, currentVersion[p]) \in {0, -1}

\* the latest version equals the current one, written differently, and the
\* probe reported 1
C3_Witness ==
    \E p \in Probes :
        /\ Past(p)
        /\ latest[p].version # NilVersion
        /\ Compare(latest[p].version, currentVersion[p]) = 0
        /\ tag[p] # resp[p].Body.releases[FirstStable(resp[p].Body.releases)].TagName
        /\ updSets[p] = <<1>>

\* C4: findLatest returns the version of the first release, in list order,
\* that is stable; it returns no draft, prerelease, unparsable or
\* prerelease-versioned release wherever it stands, goes on after a tag that
\* does not parse, and returns no version and no error when none is stable.
C4_FirstQualifying ==
    \A p \in Probes :
        (pc[p] = "compare" /\ Fetched(p)) =>
            LET rs == resp[p].Body.releases
            IN  /\ latest[p].err = Nil
                /\ IF StableAt(rs) = {} THEN latest[p].version = NilVersion
                   ELSE latest[p].version = NewVersion(rs[FirstStable(rs)].TagName).v

\* a tag that does not parse comes first, and a stable release after it is returned
C4_Witness ==
    \E p \in Probes :
        /\ pc[p] = "compare" /\ Fetched(p)
        /\ LET rs == resp[p].Body.releases
           IN  /\ Len(rs) >= 2
               /\ ~rs[1].Draft /\ ~rs[1].Prerelease
               /\ NewVersion(rs[1].TagName).err # Nil
               /\ Stable(rs[2])
               /\ latest[p].version = NewVersion(rs[2].TagName).v

Done(p) == pc[p] = "done"
Count400 == Cardinality({p \in Probes : Done(p) /\ Responded(p, StatusBadRequest)})
RepoMissing == [code |-> StatusBadRequest, body |-> <<"repo parameter is missing">>]
TagMissing == [code |-> StatusBadRequest, body |-> <<"tag parameter is missing">>]
TagMalformed == [code |-> StatusBadRequest, body |-> ErrInvalidSemVer]

\* C5 (as claimed): every probe request writes probe_duration_seconds, the
\* requests that end with a 400 response included.
C5_EveryProbe ==
    \A p \in Probes : Done(p) => Len(durSets[p]) >= 1

\* C5 (amended): probe_duration_seconds is written, once, by every probe
\* request that ends with the 200 metrics response, and by no request that
\* ends with a 400 response.
C5_On200Only ==
    \A p \in Probes :
        Done(p) =>
            /\ Responded(p, StatusOK) => Len(durSets[p]) = 1
            /\ Responded(p, StatusBadRequest) => Len(durSets[p]) = 0

\* one probe ended with 200 and wrote the duration, another ended with 400
\* after its fetch and wrote none
C5_Witness ==
    \E p, q \in Probes :
        /\ Done(p) /\ Responded(p, StatusOK) /\ Len(durSets[p]) = 1
        /\ Done(q) /\ Responded(q, StatusBadRequest)
        /\ requests[q] = 1 /\ durSets[q] = <<>>

\* C6: in every interleaving probe_error_count never decreases and equals
\* the number of requests that ended with 400; such a request incremented it
\* exactly once, and a request that ended with 200 never did, whatever tags
\* its scan skipped.
C6_ErrorCount ==
    /\ [](/\ probeErrorsGauge = Count400
          /\ \A p \in Probes :
                Done(p) =>
                    /\ Responded(p, StatusBadRequest) => errIncs[p] = 1
                    /\ Responded(p, StatusOK) => errIncs[p] = 0)
    /\ [][probeErrorsGauge' >= probeErrorsGauge]_vars

\* a probe whose scan skipped a tag that does not parse ended with 200 and
\* no increment, after another probe had ended with 400
C6_Witness ==
    \E p, q \in Probes :
        /\ Done(q) /\ Responded(q, StatusBadRequest)
        /\ pc[p] = "render" /\ Fetched(p)
        /\ \E i \in 1..Len(resp[p].Body.releases) :
                NewVersion(resp[p].Body.releases[i].TagName).err # Nil
        /\ errIncs[p] = 0
        /\ probeErrorsGauge = 1

\* C7: the checks of the parameters come before the fetch. A probe sends the
\* outbound request only with a non-empty repo and a non-empty tag that
\* parses; missing repo, missing tag and malformed tag end with 400 and no
\* outbound request, the repo being checked first; a probe that passes the
\* checks sends exactly one request.
C7_ValidateFirst ==
    /\ [](\A p \in Probes :
            /\ requests[p] <= 1
            /\ pc[p] \in {"idle", "validate", "fetch"} => requests[p] = 0
            /\ pc[p] \in {"await", "evaluate", "compare", "duration", "render"} =>
                    /\ requests[p] = 1
                    /\ repo[p] # <<>> /\ tag[p] # <<>>
                    /\ NewVersion(tag[p]).err = Nil
            /\ (Done(p) /\ requests[p] = 0) =>
                    w[p] \in {<<RepoMissing>>, <<TagMissing>>, <<TagMalformed>>})
    /\ [][\A p \in Probes :
            (pc[p] = "validate" /\ pc'[p] # "validate") =>
                IF repo[p] = <<>>
                THEN w'[p] = <<RepoMissing>> /\ pc'[p] = "done"
                ELSE IF tag[p] = <<>>
                THEN w'[p] = <<TagMissing>> /\ pc'[p] = "done"
                ELSE IF NewVersion(tag[p]).err # Nil
                THEN w'[p] = <<TagMalformed>> /\ pc'[p] = "done"
                ELSE w'[p] = <<>> /\ pc'[p] = "fetch"]_vars

\* one probe was refused for its malformed tag without a request, another
\* passed the checks and has its one request out
C7_Witness ==
    \E p, q \in Probes :
        /\ Done(p) /\ w[p] = <<TagMalformed>> /\ requests[p] = 0
        /\ pc[q] = "await" /\ requests[q] = 1

\* C8 (as claimed): with probes running concurrently, the up_to_date that a
\* probe's 200 response shows is the value this probe computed itself.
C8_OwnValue ==
    \A p \in Probes :
        (Done(p) /\ Responded(p, StatusOK)) =>
            w[p][1].body.up_to_date = updSets[p][1]

\* C9: a probe that ends with 400 leaves up_to_date and
\* probe_duration_seconds as they were and changes probe_error_count only;
\* the two gauges hold what a probe that did not fail wrote last, or 0.
C9_ErrorFrame ==
    /\ [][\A p \in Probes :
            (Len(w'[p]) > Len(w[p]) /\ w'[p][Len(w'[p])].code = StatusBadRequest) =>
                /\ updateGauge' = updateGauge
                /\ probeDurationGauge' = probeDurationGauge
                /\ probeErrorsGauge' # probeErrorsGauge]_vars
    /\ [](/\ \A p \in Probes :
                (Done(p) /\ Responded(p, StatusBadRequest)) =>
                    updSets[p] = <<>> /\ durSets[p] = <<>>
          /\ \/ updateGauge = 0 /\ \A p \in Probes : updSets[p] = <<>>
             \/ \E p \in Probes : updSets[p] = <<updateGauge>>
          /\ \/ probeDurationGauge = 0 /\ \A p \in Probes : durSets[p] = <<>>
             \/ \E p \in Probes : durSets[p] = <<probeDurationGauge>>)

\* a probe failed after another had set both gauges to 1: they are still 1
C9_Witness ==
    \E p, q \in Probes :
        /\ Done(q) /\ Responded(q, StatusBadRequest)
        /\ updSets[p] = <<1>> /\ durSets[p] = <<1>>
        /\ updateGauge = 1 /\ probeDurationGauge = 1
        /\ probeErrorsGauge = 1

\* C10: a probe whose outbound fetch returned ends with exactly one response,
\* a 400 or a 200 and never both, and a 200 comes only after this probe wrote
\* up_to_date and probe_duration_seconds.
C10_OneResponse ==
    /\ \A p \in Probes :
            (pc[p] = "evaluate") ~>
                (Done(p) /\ (Responded(p, StatusOK) \/ Responded(p, StatusBadRequest)))
    /\ [](\A p \in Probes :
            /\ Len(w[p]) <= 1
            /\ Done(p) => Len(w[p]) = 1
            /\ Responded(p, StatusOK) => Len(updSets[p]) = 1 /\ Len(durSets[p]) = 1)

\* both kinds of ending, each after a fetch that returned
C10_Witness ==
    \E p, q \in Probes :
        /\ Done(p) /\ Responded(p, StatusOK) /\ requests[p] = 1
        /\ Len(updSets[p]) = 1 /\ Len(durSets[p]) = 1
        /\ Done(q) /\ Responded(q, StatusBadRequest) /\ requests[q] = 1

====
